---------------------------- MODULE Spec2Model ----------------------------
(***************************************************************************)
(* SNPio filtering engine.                                                 *)
(*                                                                         *)
(* Two generations of the filter chain live in the repository and both are *)
(* modelled:                                                               *)
(*   impl = "legacy"  NRemover2.nremover of snpio/filtering/nremover2.py:  *)
(*                    the chain keeps a shrinking alignment view, the list *)
(*                    original_indices and the list loci_removed_per_step; *)
(*   impl = "masks"   the operators of FilteringMethods                    *)
(*                    (snpio/filtering/filtering_methods.py): the chain    *)
(*                    keeps the full alignment and two boolean arrays,     *)
(*                    loci_indices and sample_indices.                     *)
(*                                                                         *)
(* Python indices are 0-based; every index of the model is 1-based, so the *)
(* Python index i is the model's i + 1.  A threshold is a rational         *)
(* [n |-> numerator, d |-> denominator]; a comparison c / k <= n / d is     *)
(* decided by cross multiplication, and 0 / 0 (NumPy's nan) compares false.*)
(***************************************************************************)
EXTENDS Integers, Sequences, FiniteSets, TLC

(***************************************************************************)
(* Bounds of the model.                                                    *)
(***************************************************************************)
NumSamples == 3
NumLoci == 2
Den == 2

(***************************************************************************)
(* Sequence and array helpers (NumPy indexing).                            *)
(***************************************************************************)
Range(s) == {s[i] : i \in DOMAIN s}

RECURSIVE CountTrue(_)
CountTrue(mask) ==
    IF mask = <<>> THEN 0
    ELSE (IF Head(mask) THEN 1 ELSE 0) + CountTrue(Tail(mask))

\* np.where(mask)[0]: the positions of the true entries, ascending.
Where(mask) ==
    LET RECURSIVE WhereFrom(_)
        WhereFrom(i) ==
            IF i > Len(mask) THEN <<>>
            ELSE (IF mask[i] THEN <<i>> ELSE <<>>) \o WhereFrom(i + 1)
    IN WhereFrom(1)

\* seq[idx] for an index array idx (fancy indexing).
Take(seq, idx) == [k \in 1..Len(idx) |-> seq[idx[k]]]

\* seq[mask] for a boolean array mask of the same length.
BoolIndex(seq, mask) == Take(seq, Where(mask))

\* a[:, idx]: the columns idx of every row.
TakeCols(a, idx) == [r \in 1..Len(a) |-> Take(a[r], idx)]

\* a[:, mask]
BoolCols(a, mask) == TakeCols(a, Where(mask))

\* a[mask, :]
BoolRows(a, mask) == BoolIndex(a, mask)

\* The j-th column of a 2-D array, as the sequence of its entries by row.
Column(a, j) == [r \in 1..Len(a) |-> a[r][j]]

\* full = zeros(len(base)); full[base] = sub
Scatter(base, sub) ==
    LET RECURSIVE ScatterFrom(_, _)
        ScatterFrom(i, k) ==
            IF i > Len(base) THEN <<>>
            ELSE IF base[i] THEN <<sub[k]>> \o ScatterFrom(i + 1, k + 1)
                 ELSE <<FALSE>> \o ScatterFrom(i + 1, k)
    IN ScatterFrom(1, 1)

\* The number of entries of seq that lie in set.
CountIn(seq, set) == Cardinality({i \in DOMAIN seq : seq[i] \in set})

\* c / k <= t for integers c, k >= 0; nan and inf compare false.
LeqFrac_strict(c, k, t) == k > 0 /\ c * t.d < t.n * k
LeqFrac(c, k, t) == k > 0 /\ c * t.d <= t.n * k

Frac(n, d) == [n |-> n, d |-> d]

\* Python values of mixed type: None, a bool, an int, a float, a list.
None == [kind |-> "None"]
PyBool(b) == [kind |-> "bool", v |-> b]
PyInt(k) == [kind |-> "int", v |-> k]
PyList(l) == [kind |-> "list", v |-> l]

\* sorted(list) for a list of distinct integers.
RECURSIVE SortedSeq(_)
SortedSeq(S) ==
    IF S = {} THEN <<>>
    ELSE LET m == CHOOSE x \in S : \A y \in S : x <= y
         IN  <<m>> \o SortedSeq(S \ {m})

(***************************************************************************)
(* The source store (GenotypeData): genotype matrix, sample ids, the       *)
(* population map and its inverse, the file type and, for a VCF source,    *)
(* the CHROM and POS column of every original locus.                       *)
(***************************************************************************)
SampleNames == <<"s1", "s2", "s3", "s4", "s5", "s6", "s7", "s8", "s9", "s10">>
PopNames == <<"p1", "p2", "p3", "p4">>
Markers == <<"N", "-", ".", "?">>

SampleIds == [i \in 1..NumSamples |-> SampleNames[i]]

\* Two population maps: every sample in one population, or the samples
\* in pairs (s1, s2 in p1; s3, s4 in p2; ...).
PopMap(layout) ==
    LET PopOf(i) == IF layout = "one" THEN PopNames[1] ELSE PopNames[(i + 1) \div 2]
    IN [sid \in Range(SampleIds) |->
           PopOf(CHOOSE i \in 1..NumSamples : SampleIds[i] = sid)]

\* popmap_inverse: population -> the list of its sample ids, in file order.
InversePopMap(popmap, sample_list) ==
    [p \in {popmap[sid] : sid \in DOMAIN popmap} |->
        BoolIndex(sample_list,
                  [i \in 1..Len(sample_list) |->
                      sample_list[i] \in DOMAIN popmap /\ popmap[sample_list[i]] = p])]

\* The missing marker written at row s, column l: all four markers occur.
MarkerAt(s, l) == Markers[((s + l) % 4) + 1]

\* A locus has the alleles A and T and missing calls X; the first called
\* genotype of a locus, top down, is A.
Genotypes == {"A", "T", "X"}

LocusPatterns ==
    {c \in [1..NumSamples -> Genotypes] :
        \A s \in 1..NumSamples :
            (c[s] # "X" /\ \A r \in 1..(s - 1) : c[r] = "X") => c[s] = "A"}

\* The matrix whose columns are the patterns k[1], ..., k[NumLoci], each
\* missing call written as the marker of its cell.
Realize(k) == [s \in 1..NumSamples |->
                 [l \in 1..NumLoci |->
                    IF k[l][s] = "X" THEN MarkerAt(s, l) ELSE k[l][s]]]

Alignments == {Realize(k) : k \in [1..NumLoci -> LocusPatterns]}

\* CHROM and POS of every original locus of a VCF source.  Chromosome k is
\* the one named by the digit k, so names sort as the numbers do.
Coordinates ==
    LET Chroms == {1, 2}
        Positions == {100 + 50 * k : k \in 0..(NumLoci - 1)}
    IN {c \in [chrom : [1..NumLoci -> Chroms], pos : [1..NumLoci -> Positions]] :
           \A i, j \in 1..NumLoci : i # j => c.pos[i] # c.pos[j]}

NoCoordinates == [chrom |-> <<>>, pos |-> <<>>]

\* GenotypeData.inputs: the keyword arguments the store was read with, and
\* what return_filtered_output writes into that dictionary.
SourceInputs(ft) ==
    [filename |-> "source", popmapfile |-> "source", filetype |-> ft, is_subset |-> FALSE]
SubsetInputs ==
    [filename |-> "tmp", popmapfile |-> "tmp", filetype |-> "phylip", is_subset |-> TRUE]

Store(a, ft, c, layout) ==
    [kind |-> "GenotypeData", alignment |-> a, samples |-> SampleIds, popmap |-> PopMap(layout),
     popmap_inverse |-> InversePopMap(PopMap(layout), SampleIds), filetype |-> ft,
     chrom |-> c.chrom, pos |-> c.pos, inputs |-> SourceInputs(ft)]

\* A VCF source carries coordinates; a PHYLIP source carries none.  In the
\* VCF sources a locus is called A in every sample or in none.
VcfAlignments ==
    {Realize(k) : k \in [1..NumLoci -> {c \in LocusPatterns : \A r, s \in 1..NumSamples : c[r] = c[s]}]}

\* The sources with a single population have every genotype called.
CompleteAlignments ==
    {Realize(k) : k \in [1..NumLoci -> {c \in LocusPatterns : \A s \in 1..NumSamples : c[s] # "X"}]}

Stores == {Store(a, "phylip", NoCoordinates, "pairs") : a \in Alignments}
          \cup {Store(a, "phylip", NoCoordinates, "one") : a \in CompleteAlignments}
          \cup {Store(a, "vcf", c, "pairs") : a \in VcfAlignments, c \in Coordinates}

(***************************************************************************)
(* The sources of the operator runs: one population, genotypes that        *)
(* include a third base, a heterozygote code and two missing markers, and  *)
(* the columns the documentation of the operators gives as examples.       *)
(***************************************************************************)
ColumnLen == 4
ColumnSymbols == <<"A", "C", "T", "W", "N", "-">>

\* Every column of ColumnLen genotypes, up to the order of the samples.
Columns ==
    {[s \in 1..ColumnLen |-> ColumnSymbols[k[s]]] :
        k \in {f \in [1..ColumnLen -> DOMAIN ColumnSymbols] :
                 \A s \in 1..(ColumnLen - 1) : f[s] <= f[s + 1]}}

\* n genotypes: a of the first allele, then the second allele.
TwoAlleles(n, a, first, second) == [s \in 1..n |-> IF s <= a THEN first ELSE second]

\* A column every locus operator keeps: two alleles, each called twice or more.
Balanced(n) == TwoAlleles(n, n \div 2, "A", "T")

\* The matrix of the columns cols, all of one length.
Matrix(cols) == [s \in 1..Len(cols[1]) |-> [l \in 1..Len(cols) |-> cols[l][s]]]

ExampleColumns ==
    {<<TwoAlleles(9, 7, "A", "T") \o <<"W">>, Balanced(10)>>,
     <<TwoAlleles(10, 9, "A", "T"), Balanced(10)>>,
     <<TwoAlleles(4, 2, "A", "C") \o <<"G">>, Balanced(5)>>,
     <<TwoAlleles(4, 2, "A", "C"), Balanced(4)>>}

OperatorAlignments ==
    {Matrix(<<c, Balanced(ColumnLen)>>) : c \in Columns}
    \cup {Matrix(cols) : cols \in ExampleColumns}

OperatorStore(a, ft, c) ==
    LET ids == [i \in 1..Len(a) |-> SampleNames[i]]
        popmap == [sid \in Range(ids) |-> PopNames[1]]
    IN  [kind |-> "GenotypeData", alignment |-> a, samples |-> ids, popmap |-> popmap,
         popmap_inverse |-> InversePopMap(popmap, ids), filetype |-> ft,
         chrom |-> c.chrom, pos |-> c.pos, inputs |-> SourceInputs(ft)]

OperatorStores == {OperatorStore(a, "phylip", NoCoordinates) : a \in OperatorAlignments}

(***************************************************************************)
(* Run configuration: the values each stage parameter is drawn from.       *)
(***************************************************************************)
\* max_missing_global, max_missing_pop, max_missing_sample: 0, 1/Den, ..., 1.
MissingThresholds == {Frac(k, Den) : k \in 0..Den}

\* min_maf: 0 (the default: stage off), 1/(2 Den), ..., 1/2.
MafThresholds == {Frac(k, 2 * Den) : k \in 0..Den}

\* thin: None or a window in bases.
ThinWindows == {None, PyInt(100)}

\* random_subset: None, an integer count or a float proportion.
SubsetSizes == {None, PyInt(NumLoci), [kind |-> "float", v |-> Frac(1, Den)]}

IsLess1(t) == t.n < t.d
IsPositive(t) == t.n > 0

VARIABLES
    impl,                   \* "legacy" (NRemover2.nremover) or "masks" (FilteringMethods)
    popgenio,               \* the source store the chain was built from
    alignment,              \* legacy: the current view; masks: the chain's full copy
    samples,                \* the chain's sample-id list
    loci_indices,           \* legacy: None, then the sorted retained loci; masks: boolean array
    sample_indices,         \* legacy: None or the retained row positions; masks: boolean array
    original_indices,       \* legacy: nremover's local array of retained original loci
    loci_removed_per_step,  \* legacy: nremover's local list of (name, loci_removed)
    df_global_list,         \* masks: the loci step records
    df_sample_list,         \* masks: the sample step records
    search_mode,            \* legacy: search_thresholds_; masks: nremover.search_mode
    stage,                  \* the position in the pipeline of the next stage
    status,                 \* "constructed", "loop", "done" or "error"
    err,                    \* the exception that ended the run, or "none"
    last,                   \* the call that made the last step: its name, argument, outcome
    output                  \* the store the run returned, or "None"

vars == <<impl, popgenio, alignment, samples, loci_indices, sample_indices,
          original_indices, loci_removed_per_step, df_global_list, df_sample_list,
          search_mode, stage, status, err, last, output>>

Call(name, threshold, outcome) ==
    [name |-> name, threshold |-> threshold, outcome |-> outcome]

(***************************************************************************)
(* NRemover2 (legacy), snpio/filtering/nremover2.py.                       *)
(* An operator returns the filtered alignment and the retained indices, or *)
(* the exception it raises.                                                *)
(***************************************************************************)
OpResult(a, idx) == [ok |-> TRUE, alignment |-> a, indices |-> idx, error |-> "none"]
OpError(e) == [ok |-> FALSE, alignment |-> <<>>, indices |-> <<>>, error |-> e]

\* np.array([]) of an empty list of rows: shape (0,), no second axis.
Is1D(a) == a = <<>>

\* alignment.shape[1] of a 2-D array.
NCols(a) == Len(a[1])

NR_MissingChars == {"N", "-", ".", "?"}

NR_filter_missing_by_loci(threshold, a) ==
    IF Is1D(a) THEN OpError("IndexError")
    ELSE LET missing_counts == [j \in 1..NCols(a) |-> CountIn(Column(a, j), NR_MissingChars)]
             mask == [j \in 1..NCols(a) |-> LeqFrac(missing_counts[j], NCols(a), threshold)]
         IN  OpResult(BoolCols(a, mask), Where(mask))
NR_filter_missing(threshold, a) ==
    IF Is1D(a) THEN OpError("IndexError")
    ELSE LET missing_counts == [j \in 1..NCols(a) |-> CountIn(Column(a, j), NR_MissingChars)]
             mask == [j \in 1..NCols(a) |-> LeqFrac(missing_counts[j], Len(a), threshold)]
         IN  OpResult(BoolCols(a, mask), Where(mask))

NR_filter_missing_sample(threshold, a) ==
    IF Is1D(a) THEN OpError("IndexError")
    ELSE LET missing_counts == [r \in 1..Len(a) |-> CountIn(a[r], NR_MissingChars)]
             mask == [r \in 1..Len(a) |-> LeqFrac(missing_counts[r], NCols(a), threshold)]
         IN  OpResult(BoolRows(a, mask), Where(mask))

\* missing_data_proportion(column, indices) <= max_missing; column[i]
\* raises IndexError for a position i past the end of the column.
NR_missing_data_proportion_leq(column, indices, max_missing) ==
    IF Len(indices) > 1
    THEN IF \E k \in DOMAIN indices : indices[k] > Len(column)
         THEN [raised |-> TRUE, flagged |-> FALSE]
         ELSE [raised |-> FALSE,
               flagged |-> LeqFrac(CountIn(Take(column, indices), NR_MissingChars),
                                   Len(indices), max_missing)]
    ELSE [raised |-> FALSE, flagged |-> LeqFrac(1, 1, max_missing)]

\* The positions, inside the population's own sample list, of its samples
\* that are still in self.samples.
NR_pop_indices(sample_ids, self_samples) ==
    Where([i \in 1..Len(sample_ids) |-> sample_ids[i] \in Range(self_samples)])

NR_not_exceeds_threshold(column, populations, self_samples, max_missing) ==
    [pop \in DOMAIN populations |->
        NR_missing_data_proportion_leq(
            column, NR_pop_indices(populations[pop], self_samples), max_missing)]

\* mask = np.any(flags, axis=1)
NR_pop_combine(flaglist) == \E pop \in DOMAIN flaglist : flaglist[pop].flagged

NR_filter_missing_pop(max_missing, a, populations, self_samples) ==
    IF Is1D(a) \/ NCols(a) = 0 THEN OpError("AxisError")
    ELSE LET flags == [j \in 1..NCols(a) |->
                          NR_not_exceeds_threshold(Column(a, j), populations,
                                                   self_samples, max_missing)]
         IN  IF \E j \in 1..NCols(a) : \E pop \in DOMAIN populations :
                    flags[j][pop].raised
             THEN OpError("IndexError")
             ELSE LET mask == [j \in 1..NCols(a) |-> NR_pop_combine(flags[j])]
                  IN  OpResult(BoolCols(a, mask), Where(mask))


\* Bio.SeqUtils.IUPACData.ambiguous_dna_values
AmbiguousDnaValues ==
    [b \in {"A", "C", "G", "T", "M", "R", "W", "S", "Y", "K", "V", "H", "D", "B", "X", "N"} |->
        CASE b = "A" -> {"A"} [] b = "C" -> {"C"} [] b = "G" -> {"G"} [] b = "T" -> {"T"}
          [] b = "M" -> {"A", "C"} [] b = "R" -> {"A", "G"} [] b = "W" -> {"A", "T"}
          [] b = "S" -> {"C", "G"} [] b = "Y" -> {"C", "T"} [] b = "K" -> {"G", "T"}
          [] b = "V" -> {"A", "C", "G"} [] b = "H" -> {"A", "C", "T"}
          [] b = "D" -> {"A", "G", "T"} [] b = "B" -> {"C", "G", "T"}
          [] OTHER -> {"G", "A", "T", "C"}]

Bases == {"A", "C", "G", "T"}

Max(S) == CHOOSE x \in S : \A y \in S : x >= y

\* sorted(counts.values(), reverse=True)[1]
SecondLargest(c) ==
    LET top == CHOOSE b \in DOMAIN c : \A b2 \in DOMAIN c : c[b] >= c[b2]
    IN  Max({c[b2] : b2 \in DOMAIN c \ {top}})

Sum4(c) == c["A"] + c["C"] + c["G"] + c["T"]

\* count_bases of filter_minor_allele_frequency: a base counts 1, an
\* ambiguity code counts 1 for each base it stands for.
NR_count_bases(column) ==
    [b \in Bases |->
        CountIn(column, {b})
        + Cardinality({i \in DOMAIN column :
              /\ column[i] \notin Bases
              /\ column[i] \notin NR_MissingChars
              /\ column[i] \in DOMAIN AmbiguousDnaValues
              /\ b \in AmbiguousDnaValues[column[i]]})]

\* minor_allele_frequency(column) as the pair (second count, total); the
\* integer 0 is returned for a column without a counted base.
NR_minor_allele_frequency(column) ==
    LET counts == NR_count_bases(column)
    IN  IF Sum4(counts) = 0 THEN [num |-> 0, den |-> 1, int |-> TRUE]
        ELSE [num |-> SecondLargest(counts), den |-> Sum4(counts), int |-> FALSE]

\* np.apply_along_axis allocates its result with the dtype of the first
\* column's value: after an integer 0 every later frequency is stored as
\* an integer, truncated to 0.
NR_maf_array(a) ==
    LET first == NR_minor_allele_frequency(Column(a, 1))
    IN  [j \in 1..NCols(a) |->
            IF first.int THEN first ELSE NR_minor_allele_frequency(Column(a, j))]

NR_filter_minor_allele_frequency(min_maf, a) ==
    IF Is1D(a) THEN OpError("IndexError")
    ELSE IF NCols(a) = 0 THEN OpError("ValueError")
    ELSE LET maf == NR_maf_array(a)
             mask == [j \in 1..NCols(a) |-> maf[j].num * min_maf.d >= min_maf.n * maf[j].den]
         IN  OpResult(BoolCols(a, mask), Where(mask))

NR_iupac ==
    [b \in {"R", "Y", "S", "W", "K", "M"} |->
        CASE b = "R" -> {"A", "G"} [] b = "Y" -> {"C", "T"} [] b = "S" -> {"G", "C"}
          [] b = "W" -> {"A", "T"} [] b = "K" -> {"G", "T"} [] OTHER -> {"A", "C"}]

NR_count_unique_bases(column) ==
    Cardinality({b \in {"A", "C", "G", "T", "U"} :
        \E i \in DOMAIN column :
            \/ column[i] = b
            \/ column[i] \in DOMAIN NR_iupac /\ b \in NR_iupac[column[i]]})

NR_filter_non_biallelic(a) ==
    IF Is1D(a) THEN OpError("IndexError")
    ELSE IF NCols(a) = 0 THEN OpError("ValueError")
    ELSE LET mask == [j \in 1..NCols(a) |-> NR_count_unique_bases(Column(a, j)) = 2]
         IN  OpResult(BoolCols(a, mask), Where(mask))

NR_is_monomorphic(column) ==
    LET alleles == Range(column) \ {"N"}
        valid_alleles == alleles \ {"-", ".", "?"}
    IN  Cardinality(valid_alleles) >= 1

NR_filter_monomorphic(a) ==
    IF Is1D(a) THEN OpError("IndexError")
    ELSE IF NCols(a) = 0 THEN OpError("ValueError")
    ELSE LET mask == [j \in 1..NCols(a) |-> NR_is_monomorphic(Column(a, j))]
         IN  OpResult(BoolCols(a, mask), Where(mask))

NR_is_singleton(column) ==
    LET alleles == Range(column) \ NR_MissingChars
        allele_count == [x \in alleles |-> CountIn(column, {x})]
    IN  IF Cardinality(alleles) = 2
        THEN LET min_allele == CHOOSE x \in alleles :
                                  \A y \in alleles : allele_count[x] <= allele_count[y]
             IN  allele_count[min_allele] # 1
        ELSE FALSE

NR_filter_singletons(a) ==
    IF Is1D(a) THEN OpError("IndexError")
    ELSE IF NCols(a) = 0 THEN OpError("ValueError")
    ELSE LET mask == [j \in 1..NCols(a) |-> NR_is_singleton(Column(a, j))]
         IN  OpResult(BoolCols(a, mask), Where(mask))


\* np.unique(chrom_data): the chromosomes present, ascending.
UniqueChroms(chrom) == SortedSeq(Range(chrom))

\* One np.random.choice per chromosome: every index array the draws can give.
NR_linked_choices(chrom) ==
    LET unique_chroms == UniqueChroms(chrom)
    IN  {f \in [1..Len(unique_chroms) -> 1..Len(chrom)] :
            \A k \in 1..Len(unique_chroms) : chrom[f[k]] = unique_chroms[k]}

NR_filter_linked_any_filetype(a, store) ==
    IF store.filetype # "vcf" THEN {OpResult(a, [i \in 1..NCols(a) |-> i])}
    ELSE {OpResult(TakeCols(a, random_indices), random_indices) :
             random_indices \in NR_linked_choices(store.chrom)}
\* The set of results filter_linked can return.
NR_filter_linked(a, store) ==
    IF store.filetype # "vcf" THEN {OpError("OSError")}
    ELSE {OpResult(TakeCols(a, random_indices), random_indices) :
             random_indices \in NR_linked_choices(store.chrom)}

\* str(n): the decimal digits of n >= 0.
RECURSIVE DecimalDigits(_)
DecimalDigits(n) ==
    IF n < 10 THEN <<n>> ELSE DecimalDigits(n \div 10) \o <<n % 10>>

\* u < v for strings of digits.
StrLess(u, v) ==
    \E k \in 1..(Len(u) + 1) :
        /\ \A i \in 1..(k - 1) : i <= Len(v) /\ u[i] = v[i]
        /\ \/ k = Len(u) + 1 /\ Len(v) >= k
           \/ k <= Len(u) /\ k <= Len(v) /\ u[k] < v[k]

\* chrom_indices[np.argsort(chrom_positions)] for positions cast to str.
RECURSIVE NR_sorted_indices(_, _)
NR_sorted_indices(S, pos) ==
    IF S = {} THEN <<>>
    ELSE LET m == CHOOSE x \in S : \A y \in S :
                     ~StrLess(DecimalDigits(pos[y]), DecimalDigits(pos[x]))
         IN  <<m>> \o NR_sorted_indices(S \ {m}, pos)

\* The loci one chromosome keeps: the scan with last_kept_position.
RECURSIVE NR_thin_scan(_, _, _, _, _)
NR_thin_scan(sorted_indices, i, last_kept_position, threshold, pos) ==
    IF i > Len(sorted_indices) THEN {}
    ELSE IF pos[sorted_indices[i]] - last_kept_position <= threshold
         THEN NR_thin_scan(sorted_indices, i + 1, last_kept_position, threshold, pos)
         ELSE {sorted_indices[i]}
              \cup NR_thin_scan(sorted_indices, i + 1, pos[sorted_indices[i]], threshold, pos)

NR_to_keep(threshold, chrom, pos) ==
    [l \in 1..Len(pos) |->
        l \in NR_thin_scan(NR_sorted_indices({i \in 1..Len(pos) : chrom[i] = chrom[l]}, pos),
                           1, -1, threshold, pos)]

NR_thin_loci(threshold, a, store) ==
    IF store.filetype # "vcf" THEN OpError("AttributeError")
    ELSE LET to_keep == NR_to_keep(threshold, store.chrom, store.pos)
         IN  IF Len(to_keep) # NCols(a) THEN OpError("IndexError")
             ELSE OpResult(BoolCols(a, to_keep), Where(to_keep))

\* int(np.round(num / den)): halves round to the even neighbour.
RoundHalfEven(num, den) ==
    LET q == num \div den
        r == num % den
    IN  IF 2 * r < den THEN q
        ELSE IF 2 * r > den THEN q + 1
        ELSE IF q % 2 = 0 THEN q ELSE q + 1

\* np.random.choice(total, size=n, replace=False): every draw.
ChoicesWithoutReplacement(total, n) ==
    {f \in [1..n -> 1..total] : \A i, j \in 1..n : i # j => f[i] # f[j]}

\* The set of results random_subset_loci can return.
NR_random_subset_loci(threshold, a) ==
    LET total_loci == NCols(a)
        bad == IF threshold.kind = "int"
               THEN threshold.v < 0 \/ threshold.v > total_loci
               ELSE threshold.v.n < 0 \/ threshold.v.n >= threshold.v.d
        n_to_keep == IF threshold.kind = "int" THEN threshold.v
                     ELSE RoundHalfEven(total_loci * threshold.v.n, threshold.v.d)
    IN  IF bad THEN {OpError("ValueError")}
        ELSE {OpResult(TakeCols(a, subset_indices), subset_indices) :
                 subset_indices \in ChoicesWithoutReplacement(total_loci, n_to_keep)}


\* np.linspace(0.1, 1, num=5): the missingness thresholds of the sweep.
SweepThresholds == <<Frac(4, 40), Frac(13, 40), Frac(22, 40), Frac(31, 40), Frac(40, 40)>>

\* The threshold sweep calls the operators with return_props=True on
\* self.alignment and collects what they return.  generate_population_df
\* concatenates one frame per (threshold, population over the threshold);
\* pd.concat of an empty list raises ValueError.  The value is the chain's
\* alignment and sample list after the sweep and the exception it raised.
NR_plot_missing_data_thresholds(a, populations, self_samples) ==
    LET over == {<<k, j, pop>> \in (DOMAIN SweepThresholds) \X (1..NCols(a)) \X (DOMAIN populations) :
                    NR_not_exceeds_threshold(Column(a, j), populations, self_samples,
                                             SweepThresholds[k])[pop].flagged = FALSE}
    IN  [alignment |-> a, samples |-> self_samples,
         error |-> IF over = {} THEN "ValueError" ELSE "none"]

NR_steps ==
    <<"Filter linked loci", "Thin Loci", "Randomly Subset Loci",
      "Filter missing data (sample)", "Filter monomorphic sites", "Filter singletons",
      "Filter non-biallelic sites", "Filter missing data (global)",
      "Filter missing data (population)", "Filter minor allele frequency">>

Arange(n) == [i \in 1..n |-> i]

Init ==
    /\ impl \in {"legacy", "masks"}
    /\ popgenio \in Stores
    /\ alignment = popgenio.alignment
    /\ samples = popgenio.samples
    /\ loci_indices = IF impl = "legacy" THEN None
                      ELSE [l \in 1..NCols(popgenio.alignment) |-> TRUE]
    /\ sample_indices = IF impl = "legacy" THEN None
                        ELSE [r \in 1..Len(popgenio.alignment) |-> TRUE]
    /\ original_indices = <<>>
    /\ loci_removed_per_step = <<>>
    /\ df_global_list = <<>>
    /\ df_sample_list = <<>>
    /\ search_mode = FALSE
    /\ stage = 0
    /\ status = "constructed"
    /\ err = "none"
    /\ last = Call("__init__", None, "none")
    /\ output = None

\* nremover up to the loop: the view is reset to the source alignment, the
\* sweep runs when search_thresholds is set, original_indices is built.
NR_nremover ==
    /\ impl = "legacy" /\ status = "constructed"
    /\ \E search_thresholds \in BOOLEAN :
         LET sweep == NR_plot_missing_data_thresholds(popgenio.alignment,
                                                      popgenio.popmap_inverse, samples)
             raised == search_thresholds /\ sweep.error # "none"
         IN  /\ search_mode' = search_thresholds
             /\ alignment' = IF search_thresholds THEN sweep.alignment ELSE popgenio.alignment
             /\ samples' = IF search_thresholds THEN sweep.samples ELSE samples
             /\ status' = IF raised THEN "error" ELSE "loop"
             /\ err' = IF raised THEN sweep.error ELSE "none"
             /\ original_indices' = IF raised THEN <<>> ELSE Arange(NCols(popgenio.alignment))
             /\ stage' = IF raised THEN 0 ELSE 1
             /\ last' = Call("nremover", PyBool(search_thresholds), IF raised THEN "raised" ELSE "committed")
    /\ UNCHANGED <<impl, popgenio, loci_indices, sample_indices, loci_removed_per_step,
                   df_global_list, df_sample_list, output>>

\* retained_indices_global = original_indices[indices]
NR_retained_indices_global_local(orig, indices) == indices
NR_retained_indices_global(orig, indices) == Take(orig, indices)

\* The loop body for an enabled loci stage whose operator returned res.
NR_loci_step(name, threshold, res) ==
    /\ last' = Call(name, threshold, IF res.ok THEN "committed" ELSE "raised")
    /\ IF res.ok
       THEN /\ loci_removed_per_step' =
                   Append(loci_removed_per_step,
                          [name |-> name,
                           loci_removed |-> NCols(alignment) - NCols(res.alignment)])
            /\ original_indices' = NR_retained_indices_global(original_indices, res.indices)
            /\ alignment' = res.alignment
            /\ stage' = stage + 1
            /\ UNCHANGED <<status, err>>
       ELSE /\ status' = "error"
            /\ err' = res.error
            /\ UNCHANGED <<loci_removed_per_step, original_indices, alignment, stage>>
    /\ UNCHANGED <<impl, popgenio, samples, loci_indices, sample_indices,
                   df_global_list, df_sample_list, search_mode, output>>

\* The loop body for the enabled per-sample stage: no record is appended.
NR_sample_step(name, threshold, res) ==
    /\ last' = Call(name, threshold, IF res.ok THEN "committed" ELSE "raised")
    /\ IF res.ok
       THEN /\ sample_indices' = PyList(res.indices)
            /\ samples' = Take(samples, res.indices)
            /\ alignment' = res.alignment
            /\ stage' = stage + 1
            /\ UNCHANGED <<status, err>>
       ELSE /\ status' = "error"
            /\ err' = res.error
            /\ UNCHANGED <<sample_indices, samples, alignment, stage>>
    /\ UNCHANGED <<impl, popgenio, loci_indices, original_indices, loci_removed_per_step,
                   df_global_list, df_sample_list, search_mode, output>>

\* The loop body for a stage whose condition is false.
NR_skip(name, threshold) ==
    /\ last' = Call(name, threshold, "disabled")
    /\ loci_removed_per_step' = Append(loci_removed_per_step, [name |-> name, loci_removed |-> 0])
    /\ stage' = stage + 1
    /\ UNCHANGED <<impl, popgenio, alignment, samples, loci_indices, sample_indices,
                   original_indices, df_global_list, df_sample_list, search_mode,
                   status, err, output>>

NR_at(k) == impl = "legacy" /\ status = "loop" /\ stage = k

NR_step_linked ==
    /\ NR_at(1)
    /\ \E unlinked_only \in BOOLEAN :
         IF unlinked_only
         THEN \E res \in NR_filter_linked(alignment, popgenio) :
                 NR_loci_step(NR_steps[1], PyBool(unlinked_only), res)
         ELSE NR_skip(NR_steps[1], PyBool(unlinked_only))

NR_step_thin ==
    /\ NR_at(2)
    /\ \E thin \in ThinWindows :
         IF thin.kind # "None"
         THEN NR_loci_step(NR_steps[2], thin, NR_thin_loci(thin.v, alignment, popgenio))
         ELSE NR_skip(NR_steps[2], thin)

NR_step_random_subset ==
    /\ NR_at(3)
    /\ \E random_subset \in SubsetSizes :
         IF random_subset.kind # "None"
         THEN \E res \in NR_random_subset_loci(random_subset, alignment) :
                 NR_loci_step(NR_steps[3], random_subset, res)
         ELSE NR_skip(NR_steps[3], random_subset)

NR_step_missing_sample ==
    /\ NR_at(4)
    /\ \E max_missing_sample \in MissingThresholds :
         IF IsLess1(max_missing_sample)
         THEN NR_sample_step(NR_steps[4], max_missing_sample,
                             NR_filter_missing_sample(max_missing_sample, alignment))
         ELSE NR_skip(NR_steps[4], max_missing_sample)

NR_step_monomorphic ==
    /\ NR_at(5)
    /\ \E monomorphic \in BOOLEAN :
         IF monomorphic
         THEN NR_loci_step(NR_steps[5], PyBool(monomorphic), NR_filter_monomorphic(alignment))
         ELSE NR_skip(NR_steps[5], PyBool(monomorphic))

NR_step_singletons ==
    /\ NR_at(6)
    /\ \E singletons \in BOOLEAN :
         IF singletons
         THEN NR_loci_step(NR_steps[6], PyBool(singletons), NR_filter_singletons(alignment))
         ELSE NR_skip(NR_steps[6], PyBool(singletons))

NR_step_biallelic ==
    /\ NR_at(7)
    /\ \E biallelic \in BOOLEAN :
         IF biallelic
         THEN NR_loci_step(NR_steps[7], PyBool(biallelic), NR_filter_non_biallelic(alignment))
         ELSE NR_skip(NR_steps[7], PyBool(biallelic))

NR_step_missing_global ==
    /\ NR_at(8)
    /\ \E max_missing_global \in MissingThresholds :
         IF IsLess1(max_missing_global)
         THEN NR_loci_step(NR_steps[8], max_missing_global,
                           NR_filter_missing(max_missing_global, alignment))
         ELSE NR_skip(NR_steps[8], max_missing_global)

NR_step_missing_pop ==
    /\ NR_at(9)
    /\ \E max_missing_pop \in MissingThresholds :
         IF IsLess1(max_missing_pop)
         THEN NR_loci_step(NR_steps[9], max_missing_pop,
                           NR_filter_missing_pop(max_missing_pop, alignment,
                                                 popgenio.popmap_inverse, samples))
         ELSE NR_skip(NR_steps[9], max_missing_pop)

NR_step_maf ==
    /\ NR_at(10)
    /\ \E min_maf \in MafThresholds :
         IF IsPositive(min_maf)
         THEN NR_loci_step(NR_steps[10], min_maf,
                           NR_filter_minor_allele_frequency(min_maf, alignment))
         ELSE NR_skip(NR_steps[10], min_maf)


\* The rest of nremover: loci_indices, the filtering report, and
\* return_filtered_output, which builds the store the run returns.
NR_report_error(after_alignment) ==
    IF Is1D(after_alignment) THEN "IndexError"
    ELSE IF Len(after_alignment) * NCols(after_alignment) = 0 THEN "ValueError"
    ELSE "none"

Restrict(f, S) == [x \in (DOMAIN f) \cap S |-> f[x]]

NR_return_filtered_output(store, a, self_samples, self_loci_indices) ==
    LET popmap == Restrict(store.popmap, Range(self_samples))
    IN  [kind |-> "GenotypeData", alignment |-> a, samples |-> self_samples,
         popmap |-> popmap, popmap_inverse |-> InversePopMap(popmap, self_samples),
         filetype |-> store.filetype,
         chrom |-> IF store.filetype = "vcf" THEN Take(store.chrom, self_loci_indices) ELSE <<>>,
         pos |-> IF store.filetype = "vcf" THEN Take(store.pos, self_loci_indices) ELSE <<>>,
         inputs |-> SubsetInputs]

NR_finish ==
    /\ NR_at(Len(NR_steps) + 1)
    /\ loci_indices' = PyList(SortedSeq(Range(original_indices)))
    /\ LET raised == NR_report_error(alignment)
       IN  IF raised # "none"
           THEN /\ status' = "error"
                /\ err' = raised
                /\ last' = Call("print_filtering_report", None, "raised")
                /\ UNCHANGED <<sample_indices, popgenio, output>>
           ELSE /\ status' = "done"
                /\ err' = "none"
                /\ last' = Call("return_filtered_output", None, "committed")
                /\ sample_indices' = IF sample_indices.kind = "None"
                                     THEN PyList(Arange(Len(popgenio.samples)))
                                     ELSE sample_indices
                /\ popgenio' = [popgenio EXCEPT
                                   !.popmap = Restrict(popgenio.popmap, Range(samples)),
                                   !.inputs = SubsetInputs]
                /\ output' = NR_return_filtered_output(popgenio, alignment, samples,
                                                       SortedSeq(Range(original_indices)))
    /\ UNCHANGED <<impl, alignment, samples, original_indices, loci_removed_per_step,
                   df_global_list, df_sample_list, search_mode, stage>>

(***************************************************************************)
(* FilteringMethods (masks), snpio/filtering/filtering_methods.py.         *)
(* An operator reads the chain through self.nremover and ends in one of    *)
(* these ways:                                                             *)
(*   update  it calls nremover._update_loci_indices (or                    *)
(*           _update_sample_indices) with a full-length mask;              *)
(*   append  the mask is empty: it appends a record with                   *)
(*           _append_global_list (or _append_sample_list) and returns;     *)
(*   empty   the mask is empty: it returns without a record;               *)
(*   return  nothing is active: it returns before computing a mask;        *)
(*   raise   it raises.                                                    *)
(***************************************************************************)
FM_update(mask, t) ==
    [kind |-> "update", mask |-> mask, t |-> t, n_removed |-> 0, error |-> "none"]
FM_append(n_removed) ==
    [kind |-> "append", mask |-> <<>>, t |-> None, n_removed |-> n_removed, error |-> "none"]
FM_return ==
    [kind |-> "return", mask |-> <<>>, t |-> None, n_removed |-> 0, error |-> "none"]
FM_empty ==
    [kind |-> "empty", mask |-> <<>>, t |-> None, n_removed |-> 0, error |-> "none"]
FM_raise(e) ==
    [kind |-> "raise", mask |-> <<>>, t |-> None, n_removed |-> 0, error |-> e]

AnyTrue(mask) == \E i \in DOMAIN mask : mask[i]
Invert(mask) == [i \in DOMAIN mask |-> ~mask[i]]
LogicalAnd(m1, m2) == [i \in DOMAIN m1 |-> m1[i] /\ m2[i]]

\* The chain as the operators see it.
FM_nremover ==
    [alignment |-> alignment, samples |-> samples, loci_indices |-> loci_indices,
     sample_indices |-> sample_indices, search_mode |-> search_mode,
     popmap_inverse |-> popgenio.popmap_inverse]

\* alignment[sample_indices, :][:, loci_indices]
FM_alignment_array(self) == BoolCols(BoolRows(self.alignment, self.sample_indices), self.loci_indices)

\* alignment_array.size
FM_size(self) == CountTrue(self.sample_indices) * CountTrue(self.loci_indices)

\* t = None if self.nremover.search_mode else threshold
FM_t(self, threshold) == IF self.search_mode THEN None ELSE threshold

FM_MissingChars == {"N", "-", ".", "?"}

FM_filter_missing_commit_empty(self, threshold) ==
    IF threshold.n < 0 \/ threshold.n > threshold.d THEN FM_raise("ValueError")
    ELSE LET alignment_array == FM_alignment_array(self)
             num_loci == CountTrue(self.loci_indices)
             num_samples == CountTrue(self.sample_indices)
             missing_counts == [j \in 1..num_loci |->
                                   CountIn(Column(alignment_array, j), FM_MissingChars)]
             mask == [j \in 1..num_loci |-> LeqFrac(missing_counts[j], num_samples, threshold)]
             full_mask == Scatter(self.loci_indices, mask)
         IN  FM_update(full_mask, FM_t(self, threshold))

FM_filter_missing(self, threshold) ==
    IF threshold.n < 0 \/ threshold.n > threshold.d THEN FM_raise("ValueError")
    ELSE LET alignment_array == FM_alignment_array(self)
             num_loci == CountTrue(self.loci_indices)
             num_samples == CountTrue(self.sample_indices)
             missing_counts == [j \in 1..num_loci |->
                                   CountIn(Column(alignment_array, j), FM_MissingChars)]
             mask == [j \in 1..num_loci |-> LeqFrac(missing_counts[j], num_samples, threshold)]
             full_mask == Scatter(self.loci_indices, mask)
             n_to_keep == CountTrue(full_mask)
         IN  IF n_to_keep = 0 THEN FM_append(CountTrue(Invert(full_mask)))
             ELSE FM_update(full_mask, FM_t(self, threshold))

\* The mask of one population over the active loci, for the positions
\* indices of its samples among the active samples.
FM_pop_mask(alignment_array, indices, threshold) ==
    [j \in 1..Len(alignment_array[1]) |->
        LeqFrac(CountIn(Take(Column(alignment_array, j), indices), FM_MissingChars),
                Len(indices), threshold)]

FM_filter_missing_pop(self, threshold) ==
    IF ~AnyTrue(self.loci_indices) THEN FM_return
    ELSE IF FM_size(self) = 0 THEN FM_return
    ELSE IF Len(self.samples) # Len(self.sample_indices) THEN FM_raise("IndexError")
    ELSE LET alignment_array == FM_alignment_array(self)
             populations == self.popmap_inverse
             active == BoolIndex(self.samples, self.sample_indices)
             indices(pop) == Where([i \in 1..Len(active) |-> active[i] \in Range(populations[pop])])
             pop_masks == {FM_pop_mask(alignment_array, indices(pop), threshold) :
                              pop \in {q \in DOMAIN populations : indices(q) # <<>>}}
             cumulative_mask == [j \in 1..CountTrue(self.loci_indices) |->
                                    pop_masks # {} /\ \A m \in pop_masks : m[j]]
             full_mask == Scatter(self.loci_indices, cumulative_mask)
         IN  IF CountTrue(full_mask) = 0 THEN FM_append(CountTrue(Invert(full_mask)))
             ELSE FM_update(full_mask, FM_t(self, threshold))

FM_filter_missing_sample_all_loci(self, threshold) ==
    IF ~AnyTrue(self.loci_indices) THEN FM_return
    ELSE IF FM_size(self) = 0 THEN FM_return
    ELSE LET rows == BoolRows(self.alignment, self.sample_indices)
             mask == [r \in 1..Len(rows) |->
                         LeqFrac(CountIn(rows[r], FM_MissingChars),
                                 Len(self.loci_indices), threshold)]
             final_mask == Scatter(self.sample_indices, mask)
         IN  IF CountTrue(final_mask) = 0
             THEN FM_append(CountTrue(self.sample_indices))
             ELSE FM_update(final_mask, FM_t(self, threshold))
FM_filter_missing_sample(self, threshold) ==
    IF ~AnyTrue(self.loci_indices) THEN FM_return
    ELSE IF FM_size(self) = 0 THEN FM_return
    ELSE LET alignment_array == FM_alignment_array(self)
             num_loci == CountTrue(self.loci_indices)
             missing_counts == [r \in 1..Len(alignment_array) |->
                                   CountIn(alignment_array[r], FM_MissingChars)]
             mask == [r \in 1..Len(alignment_array) |->
                         LeqFrac(missing_counts[r], num_loci, threshold)]
             final_mask == Scatter(self.sample_indices, mask)
             n_to_keep == CountTrue(final_mask)
         IN  IF n_to_keep = 0
             THEN FM_append(CountTrue(self.sample_indices) - n_to_keep)
             ELSE FM_update(final_mask, FM_t(self, threshold))

RECURSIVE SumOver(_, _)
SumOver(column, f) ==
    IF column = <<>> THEN 0 ELSE f[Head(column)] + SumOver(Tail(column), f)

\* count_bases, in twelfths of a genotype: the exact matches of A, C, G
\* and T, then every key of ambiguous_dna_values (A, C, G and T, N and X
\* among them) shares its count equally among the bases it stands for.
\* FM_base_share[b][g] is what one genotype g adds to the count of b.
FM_base_share ==
    [b \in Bases |->
        [g \in Bases \cup DOMAIN AmbiguousDnaValues \cup FM_MissingChars |->
            (IF g = b THEN 12 ELSE 0)
            + (IF g \in DOMAIN AmbiguousDnaValues /\ b \in AmbiguousDnaValues[g]
               THEN 12 \div Cardinality(AmbiguousDnaValues[g]) ELSE 0)]]

FM_count_bases(column) == [b \in Bases |-> SumOver(column, FM_base_share[b])]

\* minor_allele_frequency(column) as (second count, total); the integer 0
\* for a column without a counted base.
FM_minor_allele_frequency(column) ==
    LET counts == FM_count_bases(column)
    IN  IF Sum4(counts) = 0 THEN [num |-> 0, den |-> 1, int |-> TRUE]
        ELSE [num |-> SecondLargest(counts), den |-> Sum4(counts), int |-> FALSE]

\* minor_allele_count(column), in twelfths.
FM_minor_allele_count(column) ==
    LET counts == FM_count_bases(column)
    IN  IF Sum4(counts) = 0 THEN [num |-> 0, int |-> TRUE]
        ELSE [num |-> SecondLargest(counts), int |-> FALSE]

FM_compute_maf_proportions(self, maf_threshold) ==
    IF FM_size(self) = 0 THEN [i \in 1..Len(self.loci_indices) |-> FALSE]
    ELSE LET alignment_array == FM_alignment_array(self)
             first == FM_minor_allele_frequency(Column(alignment_array, 1))
             maf == [j \in 1..Len(alignment_array[1]) |->
                        IF first.int THEN first
                        ELSE FM_minor_allele_frequency(Column(alignment_array, j))]
         IN  [j \in 1..Len(alignment_array[1]) |->
                 maf[j].num * maf_threshold.d >= maf_threshold.n * maf[j].den]

FM_calculate_minor_allele_counts(self) ==
    IF FM_size(self) = 0 THEN [j \in 1..CountTrue(self.loci_indices) |-> 0]
    ELSE LET alignment_array == FM_alignment_array(self)
             first == FM_minor_allele_count(Column(alignment_array, 1))
         IN  [j \in 1..Len(alignment_array[1]) |->
                 IF first.int
                 THEN 12 * (FM_minor_allele_count(Column(alignment_array, j)).num \div 12)
                 ELSE FM_minor_allele_count(Column(alignment_array, j)).num]

FM_compute_mac_counts(self, min_count) ==
    LET mac_counts == FM_calculate_minor_allele_counts(self)
    IN  [j \in DOMAIN mac_counts |-> mac_counts[j] >= 12 * min_count]

\* NRemover2._compute_maf_proportions and NRemover2._compute_mac_counts,
\* which filter_maf and filter_mac call: the chain hands the call to the
\* method of the same name of FilteringMethods.
NR2_compute_maf_proportions(self, threshold) == FM_compute_maf_proportions(self, threshold)
NR2_compute_mac_counts(self, min_count) == FM_compute_mac_counts(self, min_count)

\* The end common to filter_maf and filter_mac once the mask is computed.
FM_commit_allele_mask(self, mask, threshold) ==
    IF ~AnyTrue(mask) THEN FM_empty
    ELSE IF Len(mask) # CountTrue(self.loci_indices) THEN FM_raise("ValueError")
    ELSE LET full_mask == Scatter(self.loci_indices, mask)
         IN  IF CountTrue(full_mask) = 0 THEN FM_append(CountTrue(Invert(full_mask)))
             ELSE FM_update(full_mask, FM_t(self, threshold))

FM_filter_maf(self, threshold) ==
    IF ~AnyTrue(self.loci_indices) THEN FM_return
    ELSE FM_commit_allele_mask(self, NR2_compute_maf_proportions(self, threshold), threshold)

FM_filter_mac(self, min_count) ==
    IF ~AnyTrue(self.loci_indices) THEN FM_return
    ELSE FM_commit_allele_mask(self, NR2_compute_mac_counts(self, min_count.v), min_count)

FM_heterozygous_bases == {"R", "Y", "S", "W", "K", "M"}

FM_invalid_bases(exclude_heterozygous) ==
    IF exclude_heterozygous THEN {"-", ".", "?", "N", "R", "Y", "S", "W", "K", "M"}
    ELSE {"-", ".", "?", "N"}

\* count_valid_bases of filter_biallelic
FM_count_valid_bases(col, exclude_heterozygous) ==
    LET valid == {col[i] : i \in {k \in DOMAIN col : col[k] \notin {"-", ".", "?", "N"}}}
    IN  IF exclude_heterozygous THEN Cardinality(valid)
        ELSE Cardinality((valid \ FM_heterozygous_bases)
                         \cup UNION {NR_iupac[h] : h \in valid \cap FM_heterozygous_bases})

FM_filter_biallelic(self, exclude_heterozygous) ==
    IF ~AnyTrue(self.loci_indices) \/ ~AnyTrue(self.sample_indices) THEN FM_return
    ELSE LET rows == BoolRows(self.alignment, self.sample_indices)
             mask == [j \in 1..Len(self.loci_indices) |->
                         FM_count_valid_bases(Column(rows, j), exclude_heterozygous) = 2]
             final_mask == LogicalAnd(mask, self.loci_indices)
         IN  IF CountTrue(final_mask) = 0 THEN FM_empty
             ELSE FM_update(final_mask, FM_t(self, PyInt(IF exclude_heterozygous THEN 1 ELSE 0)))

\* count_valid_alleles of filter_monomorphic: the number of genotypes of
\* the column, over every row of the full alignment, that are not invalid.
FM_mono_count_valid_alleles(col, exclude_heterozygous) ==
    Cardinality({i \in DOMAIN col : col[i] \notin FM_invalid_bases(exclude_heterozygous)})

FM_filter_monomorphic(self, exclude_heterozygous) ==
    IF ~AnyTrue(self.loci_indices) THEN FM_return
    ELSE LET polymorphic_mask ==
                 [j \in 1..Len(self.loci_indices) |->
                     FM_mono_count_valid_alleles(Column(self.alignment, j),
                                                 exclude_heterozygous) > 1]
             final_mask == LogicalAnd(self.loci_indices, polymorphic_mask)
         IN  IF CountTrue(final_mask) = 0 THEN FM_empty
             ELSE FM_update(final_mask, FM_t(self, PyInt(IF exclude_heterozygous THEN 1 ELSE 0)))

FM_is_singleton_column(col, exclude_heterozygous) ==
    LET valid == {i \in DOMAIN col : col[i] \notin FM_invalid_bases(exclude_heterozygous)}
        alleles == {col[i] : i \in valid}
        allele_count == [x \in alleles |-> Cardinality({i \in valid : col[i] = x})]
    IN  Cardinality(alleles) >= 2 /\ \E x \in alleles : allele_count[x] = 1

FM_filter_singletons(self, exclude_heterozygous) ==
    IF ~AnyTrue(self.loci_indices) \/ ~AnyTrue(self.sample_indices) THEN FM_return
    ELSE LET rows == BoolRows(self.alignment, self.sample_indices)
             mask == [j \in 1..Len(self.loci_indices) |->
                         FM_is_singleton_column(Column(rows, j), exclude_heterozygous)]
             final_mask == LogicalAnd(Invert(mask), self.loci_indices)
         IN  IF CountTrue(final_mask) = 0 THEN FM_empty
             ELSE FM_update(final_mask, FM_t(self, PyInt(IF exclude_heterozygous THEN 1 ELSE 0)))

\* self.genotype_data is read, and FilteringMethods has no such attribute.
FM_filter_linked(self) ==
    IF ~AnyTrue(self.loci_indices) THEN FM_return ELSE FM_raise("AttributeError")

FM_thin_loci(self, size) == FM_raise("AttributeError")

\* The masks random_subset_loci can hand to _update_loci_indices.
FM_random_subset_loci(self, size) ==
    IF ~AnyTrue(self.loci_indices) THEN {FM_return}
    ELSE LET total_loci == CountTrue(self.loci_indices)
             active_loci == Where(self.loci_indices)
         IN  IF size.kind = "int" /\ (size.v <= 0 \/ size.v > total_loci)
             THEN {FM_raise("RuntimeError")}
             ELSE IF size.kind = "float" /\ (size.v.n <= 0 \/ size.v.n > size.v.d)
             THEN {FM_raise("ValueError")}
             ELSE LET n == IF size.kind = "int" THEN size.v
                           ELSE RoundHalfEven(total_loci * size.v.n, size.v.d)
                  IN  {LET subset_mask == [i \in 1..Len(self.loci_indices) |->
                                              \E k \in 1..n : active_loci[subset_indices[k]] = i]
                       IN  IF CountTrue(subset_mask) = 0
                           THEN FM_append(CountTrue(Invert(subset_mask)))
                           ELSE FM_update(subset_mask, FM_t(self, size)) :
                         subset_indices \in ChoicesWithoutReplacement(total_loci, n)}

(***************************************************************************)
(* The chain that drives FilteringMethods (NRemover2 of the masks          *)
(* generation): construction, the commit of a mask, the run over the       *)
(* eleven stages and the final store.                                      *)
(***************************************************************************)
FM_steps ==
    <<"filter_linked", "thin_loci", "random_subset_loci", "filter_missing_sample",
      "filter_monomorphic", "filter_singletons", "filter_biallelic", "filter_missing",
      "filter_missing_pop", "filter_maf", "filter_mac">>

StepRecord(name, threshold, removed, before) ==
    [Filter_Method |-> name, Threshold |-> threshold, Removed_Count |-> removed,
     Removed_Prop |-> Frac(removed, before)]

\* _append_global_list / _append_sample_list(method_name, removed, 1.0)
FM_append_record(self, name, threshold, removed) ==
    [Filter_Method |-> name, Threshold |-> FM_t(self, threshold), Removed_Count |-> removed,
     Removed_Prop |-> Frac(1, 1)]

\* _update_loci_indices / _update_sample_indices: the new mask.
NR2_update_indices(indices, full_mask) == LogicalAnd(indices, full_mask)

FM_at(k) == impl = "masks" /\ status = "loop" /\ stage = k

\* run(pipeline_config) up to the first stage.
FM_run ==
    /\ impl = "masks" /\ status = "constructed"
    /\ \E mode \in BOOLEAN :
         /\ search_mode' = mode
         /\ last' = Call("run", PyBool(mode), "committed")
    /\ status' = "loop"
    /\ stage' = 1
    /\ UNCHANGED <<impl, popgenio, alignment, samples, loci_indices, sample_indices,
                   original_indices, loci_removed_per_step, df_global_list, df_sample_list,
                   err, output>>

\* An enabled loci stage whose operator ended as out.
FM_loci_step(name, threshold, out) ==
    /\ last' = Call(name, threshold,
                    CASE out.kind = "update" -> "committed"
                      [] out.kind = "raise" -> "raised"
                      [] out.kind = "return" -> "returned"
                      [] OTHER -> "empty")
    /\ loci_indices' = IF out.kind = "update"
                       THEN NR2_update_indices(loci_indices, out.mask)
                       ELSE loci_indices
    /\ df_global_list' =
          CASE out.kind = "update" ->
                 Append(df_global_list,
                        StepRecord(name, out.t,
                                   CountTrue(loci_indices)
                                   - CountTrue(NR2_update_indices(loci_indices, out.mask)),
                                   CountTrue(loci_indices)))
            [] out.kind = "append" ->
                 Append(df_global_list, FM_append_record(FM_nremover, name, threshold, out.n_removed))
            [] OTHER -> df_global_list
    /\ IF out.kind = "raise" \/ (out.kind \in {"append", "empty"} /\ ~search_mode)
       THEN /\ status' = "error"
            /\ err' = IF out.kind = "raise" THEN out.error ELSE "EmptyResult"
            /\ stage' = stage
       ELSE /\ stage' = stage + 1
            /\ UNCHANGED <<status, err>>
    /\ UNCHANGED <<impl, popgenio, alignment, samples, sample_indices, original_indices,
                   loci_removed_per_step, df_sample_list, search_mode, output>>

\* The enabled per-sample stage: the commit also prunes the sample-id list.
FM_sample_step(name, threshold, out) ==
    /\ last' = Call(name, threshold,
                    CASE out.kind = "update" -> "committed"
                      [] out.kind = "raise" -> "raised"
                      [] out.kind = "return" -> "returned"
                      [] OTHER -> "empty")
    /\ sample_indices' = IF out.kind = "update"
                         THEN NR2_update_indices(sample_indices, out.mask)
                         ELSE sample_indices
    /\ samples' = IF out.kind = "update"
                  THEN BoolIndex(popgenio.samples, NR2_update_indices(sample_indices, out.mask))
                  ELSE samples
    /\ df_sample_list' =
          CASE out.kind = "update" ->
                 Append(df_sample_list,
                        StepRecord(name, out.t,
                                   CountTrue(sample_indices)
                                   - CountTrue(NR2_update_indices(sample_indices, out.mask)),
                                   CountTrue(sample_indices)))
            [] out.kind = "append" ->
                 Append(df_sample_list, FM_append_record(FM_nremover, name, threshold, out.n_removed))
            [] OTHER -> df_sample_list
    /\ IF out.kind = "raise" \/ (out.kind \in {"append", "empty"} /\ ~search_mode)
       THEN /\ status' = "error"
            /\ err' = IF out.kind = "raise" THEN out.error ELSE "EmptyResult"
            /\ stage' = stage
       ELSE /\ stage' = stage + 1
            /\ UNCHANGED <<status, err>>
    /\ UNCHANGED <<impl, popgenio, alignment, loci_indices, original_indices,
                   loci_removed_per_step, df_global_list, search_mode, output>>

\* A disabled stage: a zero-effect record.
FM_skip(name) ==
    /\ last' = Call(name, None, "disabled")
    /\ IF name = "filter_missing_sample"
       THEN /\ df_sample_list' = Append(df_sample_list,
                                        StepRecord(name, None, 0, CountTrue(sample_indices)))
            /\ UNCHANGED df_global_list
       ELSE /\ df_global_list' = Append(df_global_list,
                                        StepRecord(name, None, 0, CountTrue(loci_indices)))
            /\ UNCHANGED df_sample_list
    /\ stage' = stage + 1
    /\ UNCHANGED <<impl, popgenio, alignment, samples, loci_indices, sample_indices,
                   original_indices, loci_removed_per_step, search_mode, status, err, output>>

\* The thresholds of an enabled stage of the masks chain.  In an operator
\* run the stages after the per-sample stage are enabled until one of them
\* has left the record of an enabled stage; the later ones are disabled.
OperatorRun == popgenio \in OperatorStores

OperatorQuiet ==
    /\ OperatorRun
    /\ \E i \in DOMAIN df_global_list :
          /\ \E k \in 5..Len(FM_steps) : df_global_list[i].Filter_Method = FM_steps[k]
          /\ (df_global_list[i].Threshold # None \/ df_global_list[i].Removed_Count > 0)

\* Thresholds outside [0, 1], which a configuration may carry to the
\* missing-global and the per-population stage of a full run.
OutOfRangeThresholds == IF OperatorRun THEN {} ELSE {Frac(0 - 1, Den), Frac(Den + 1, Den)}

FM_MissingThresholds ==
    IF OperatorQuiet THEN {}
    ELSE {t \in MissingThresholds : IsLess1(t)} \cup OutOfRangeThresholds
FM_GroupThresholds ==
    IF OperatorQuiet THEN {} ELSE {t \in MissingThresholds : IsLess1(t) /\ IsPositive(t)}
\* In an operator run the per-sample stage also takes the threshold 0.
FM_SampleThresholds ==
    IF OperatorRun THEN {t \in MissingThresholds : IsLess1(t)} ELSE FM_GroupThresholds

FM_PopThresholds == FM_GroupThresholds \cup (IF OperatorQuiet THEN {} ELSE OutOfRangeThresholds)
FM_MafThresholds == IF OperatorQuiet THEN {} ELSE {t \in MafThresholds : IsPositive(t)}
FM_MacCounts ==
    IF OperatorQuiet THEN {} ELSE IF OperatorRun THEN {PyInt(1), PyInt(2)} ELSE {PyInt(1)}
FM_ExcludeHeterozygous ==
    IF OperatorQuiet THEN {} ELSE IF OperatorRun THEN BOOLEAN ELSE {FALSE}

FM_step_linked ==
    /\ FM_at(1)
    /\ \E enabled \in BOOLEAN :
         IF enabled
         THEN FM_loci_step(FM_steps[1], PyBool(TRUE), FM_filter_linked(FM_nremover))
         ELSE FM_skip(FM_steps[1])

FM_step_thin ==
    /\ FM_at(2)
    /\ \E size \in ThinWindows :
         IF size.kind # "None"
         THEN FM_loci_step(FM_steps[2], size, FM_thin_loci(FM_nremover, size.v))
         ELSE FM_skip(FM_steps[2])

FM_step_random_subset ==
    /\ FM_at(3)
    /\ \E size \in SubsetSizes :
         IF size.kind # "None"
         THEN \E out \in FM_random_subset_loci(FM_nremover, size) :
                 FM_loci_step(FM_steps[3], size, out)
         ELSE FM_skip(FM_steps[3])

FM_step_missing_sample ==
    /\ FM_at(4)
    /\ \/ \E threshold \in FM_SampleThresholds :
            FM_sample_step(FM_steps[4], threshold, FM_filter_missing_sample(FM_nremover, threshold))
       \/ FM_skip(FM_steps[4])

FM_step_monomorphic ==
    /\ FM_at(5)
    /\ \/ \E exclude_heterozygous \in FM_ExcludeHeterozygous :
            FM_loci_step(FM_steps[5], PyBool(exclude_heterozygous),
                         FM_filter_monomorphic(FM_nremover, exclude_heterozygous))
       \/ FM_skip(FM_steps[5])

FM_step_singletons ==
    /\ FM_at(6)
    /\ \/ \E exclude_heterozygous \in FM_ExcludeHeterozygous :
            FM_loci_step(FM_steps[6], PyBool(exclude_heterozygous),
                         FM_filter_singletons(FM_nremover, exclude_heterozygous))
       \/ FM_skip(FM_steps[6])

FM_step_biallelic ==
    /\ FM_at(7)
    /\ \/ \E exclude_heterozygous \in FM_ExcludeHeterozygous :
            FM_loci_step(FM_steps[7], PyBool(exclude_heterozygous),
                         FM_filter_biallelic(FM_nremover, exclude_heterozygous))
       \/ FM_skip(FM_steps[7])

FM_step_missing_global ==
    /\ FM_at(8)
    /\ \/ \E threshold \in FM_MissingThresholds :
            FM_loci_step(FM_steps[8], threshold, FM_filter_missing(FM_nremover, threshold))
       \/ FM_skip(FM_steps[8])

FM_step_missing_pop ==
    /\ FM_at(9)
    /\ \/ \E threshold \in FM_PopThresholds :
            FM_loci_step(FM_steps[9], threshold, FM_filter_missing_pop(FM_nremover, threshold))
       \/ FM_skip(FM_steps[9])

FM_step_maf ==
    /\ FM_at(10)
    /\ \/ \E threshold \in FM_MafThresholds :
            FM_loci_step(FM_steps[10], threshold, FM_filter_maf(FM_nremover, threshold))
       \/ FM_skip(FM_steps[10])

FM_step_mac ==
    /\ FM_at(11)
    /\ \/ \E min_count \in FM_MacCounts :
            FM_loci_step(FM_steps[11], min_count, FM_filter_mac(FM_nremover, min_count))
       \/ FM_skip(FM_steps[11])

\* finalize(): the new store of the retained rows and columns.
FM_finalize(store, a, self_samples, self_loci_indices, self_sample_indices) ==
    LET popmap == Restrict(store.popmap, Range(self_samples))
    IN  [kind |-> "GenotypeData",
         alignment |-> BoolCols(BoolRows(a, self_sample_indices), self_loci_indices),
         samples |-> self_samples,
         popmap |-> popmap, popmap_inverse |-> InversePopMap(popmap, self_samples),
         filetype |-> store.filetype,
         chrom |-> IF store.filetype = "vcf" THEN BoolIndex(store.chrom, self_loci_indices) ELSE <<>>,
         pos |-> IF store.filetype = "vcf" THEN BoolIndex(store.pos, self_loci_indices) ELSE <<>>,
         inputs |-> store.inputs]

FM_finish ==
    /\ FM_at(Len(FM_steps) + 1)
    /\ status' = "done"
    /\ last' = Call("finalize", None, "committed")
    /\ output' = FM_finalize(popgenio, alignment, samples, loci_indices, sample_indices)
    /\ UNCHANGED <<impl, popgenio, alignment, samples, loci_indices, sample_indices,
                   original_indices, loci_removed_per_step, df_global_list, df_sample_list,
                   search_mode, stage, err>>

Next ==
    \/ NR_nremover
    \/ NR_step_linked
    \/ NR_step_thin
    \/ NR_step_random_subset
    \/ NR_step_missing_sample
    \/ NR_step_monomorphic
    \/ NR_step_singletons
    \/ NR_step_biallelic
    \/ NR_step_missing_global
    \/ NR_step_missing_pop
    \/ NR_step_maf
    \/ NR_finish
    \/ FM_run
    \/ FM_step_linked
    \/ FM_step_thin
    \/ FM_step_random_subset
    \/ FM_step_missing_sample
    \/ FM_step_monomorphic
    \/ FM_step_singletons
    \/ FM_step_biallelic
    \/ FM_step_missing_global
    \/ FM_step_missing_pop
    \/ FM_step_maf
    \/ FM_step_mac
    \/ FM_finish

Spec == Init /\ [][Next]_vars

\* The runs over the sources of the operator runs.
InitOperators ==
    /\ impl \in {"legacy", "masks"}
    /\ popgenio \in OperatorStores
    /\ alignment = popgenio.alignment
    /\ samples = popgenio.samples
    /\ loci_indices = IF impl = "legacy" THEN None
                      ELSE [l \in 1..NCols(popgenio.alignment) |-> TRUE]
    /\ sample_indices = IF impl = "legacy" THEN None
                        ELSE [r \in 1..Len(popgenio.alignment) |-> TRUE]
    /\ original_indices = <<>>
    /\ loci_removed_per_step = <<>>
    /\ df_global_list = <<>>
    /\ df_sample_list = <<>>
    /\ search_mode = FALSE
    /\ stage = 0
    /\ status = "constructed"
    /\ err = "none"
    /\ last = Call("__init__", None, "none")
    /\ output = None

SpecOperators == InitOperators /\ [][Next]_vars

\* A second legacy chain built from the same source, run to its end while
\* this chain is under way: NRemover2(popgenio).nremover(max_missing_sample)
\* with the other stages disabled.  Its view, masks and lists are its own;
\* what it shares with this chain is the source, which its
\* return_filtered_output writes to.
NR_second_chain ==
    /\ impl = "legacy" /\ status \in {"constructed", "loop"}
    /\ popgenio.inputs = SourceInputs(popgenio.filetype)
    /\ \E max_missing_sample \in {t \in MissingThresholds : IsLess1(t)} :
         LET res == NR_filter_missing_sample(max_missing_sample, popgenio.alignment)
             second_samples == Take(popgenio.samples, res.indices)
         IN  /\ res.ok
             /\ NR_report_error(res.alignment) = "none"
             /\ popgenio' = [popgenio EXCEPT
                                !.popmap = Restrict(popgenio.popmap, Range(second_samples)),
                                !.inputs = SubsetInputs]
    /\ UNCHANGED <<impl, alignment, samples, loci_indices, sample_indices, original_indices,
                   loci_removed_per_step, df_global_list, df_sample_list, search_mode,
                   stage, status, err, last, output>>

NextTwoChains == Next \/ NR_second_chain

SpecTwoChains == Init /\ [][NextTwoChains]_vars

(***************************************************************************)
(* What the properties below speak of, for either chain.                   *)
(***************************************************************************)
OriginalLoci == NCols(popgenio.alignment)
OriginalSamples == Len(popgenio.alignment)

\* The original loci and samples still retained.
RetainedLoci ==
    IF impl = "masks" THEN {i \in DOMAIN loci_indices : loci_indices[i]}
    ELSE IF status = "constructed" THEN 1..OriginalLoci
    ELSE Range(original_indices)

RetainedSamples ==
    IF impl = "masks" THEN {r \in DOMAIN sample_indices : sample_indices[r]}
    ELSE {r \in 1..OriginalSamples : popgenio.samples[r] \in Range(samples)}

\* The active view handed to the next operator, and its shape.
ActiveView == IF impl = "masks" THEN FM_alignment_array(FM_nremover) ELSE alignment
ViewRows == Len(ActiveView)
ViewCols == IF ActiveView = <<>> THEN 0 ELSE Len(ActiveView[1])

InChain == status \in {"constructed", "loop", "done"}

\* Only the masks chain has a search mode; in the legacy chain search_mode
\* holds search_thresholds_, the request for the sweep.
SearchMode == impl = "masks" /\ search_mode
StrictMode == ~SearchMode

\* The position of a stage in the pipeline, by the name either chain gives it.
StageIndex(name) ==
    IF \E k \in DOMAIN NR_steps : NR_steps[k] = name
    THEN CHOOSE k \in DOMAIN NR_steps : NR_steps[k] = name
    ELSE IF \E k \in DOMAIN FM_steps : FM_steps[k] = name
    THEN CHOOSE k \in DOMAIN FM_steps : FM_steps[k] = name
    ELSE 0

NumStages == Len(FM_steps)

\* The step list of the run: the stage positions of its records, in order.
LociStepList ==
    IF impl = "masks" THEN [i \in DOMAIN df_global_list |-> StageIndex(df_global_list[i].Filter_Method)]
    ELSE [i \in DOMAIN loci_removed_per_step |-> StageIndex(loci_removed_per_step[i].name)]
SampleStepList ==
    IF impl = "masks" THEN [i \in DOMAIN df_sample_list |-> StageIndex(df_sample_list[i].Filter_Method)]
    ELSE <<>>

\* The missing calls of original locus i among the original samples rows.
MissingCalls(i, rows) ==
    Cardinality({r \in rows : popgenio.alignment[r][i] \in {"N", "-", ".", "?"}})

\* The retained samples of population pop.
PopRows(pop) == {r \in RetainedSamples : popgenio.popmap[popgenio.samples[r]] = pop}
Populations == DOMAIN popgenio.popmap_inverse

\* The step being taken is the stage at position k of either chain.
StageStep(k) == status = "loop" /\ stage = k /\ StageIndex(last'.name) = k

StageRemoved(k) ==
    IF impl = "masks"
    THEN \E i \in DOMAIN df_global_list :
            /\ df_global_list[i].Filter_Method = FM_steps[k]
            /\ df_global_list[i].Removed_Count > 0
            /\ df_global_list[i].Removed_Prop # Frac(1, 1)
    ELSE \E i \in DOMAIN loci_removed_per_step :
            /\ loci_removed_per_step[i].name = NR_steps[k]
            /\ loci_removed_per_step[i].loci_removed > 0

(***************************************************************************)
(* C1.  At every point of a chain run the loci mask has the original locus *)
(* count as its length and as many true entries as the active view has     *)
(* columns, and the sample mask has the original sample count as its       *)
(* length and as many true entries as the active view has rows.            *)
(***************************************************************************)
C1_MasksMatchView ==
    InChain =>
        /\ impl = "masks" => /\ Len(loci_indices) = OriginalLoci
                             /\ Len(sample_indices) = OriginalSamples
        /\ RetainedLoci \subseteq 1..OriginalLoci
        /\ Cardinality(RetainedLoci) = ViewCols
        /\ Cardinality(RetainedSamples) = ViewRows

(***************************************************************************)
(* C2.  Within a run a cleared locus or sample is never reinstated: every  *)
(* step of the chain leaves the retained loci and the retained samples     *)
(* subsets of what they were, the random-selection stages included.        *)
(***************************************************************************)
C2_Monotonic ==
    [][status = "loop" =>
          /\ RetainedLoci' \subseteq RetainedLoci
          /\ RetainedSamples' \subseteq RetainedSamples
          /\ Cardinality(RetainedLoci') <= Cardinality(RetainedLoci)
          /\ Cardinality(RetainedSamples') <= Cardinality(RetainedSamples)]_vars

\* The random subset removed a locus and a later stage has committed.
C2_Witness ==
    /\ status = "loop" /\ stage > 4
    /\ last.outcome = "committed"
    /\ StageRemoved(3)
    /\ Cardinality(RetainedLoci) = OriginalLoci - 1

(***************************************************************************)
(* C3.  A run takes the stages in the fixed order of the eleven-stage      *)
(* pipeline, minor-allele-count last: every stage step is the step of the  *)
(* next position, and a run completes only past the eleventh position.     *)
(***************************************************************************)
C3_FixedOrder ==
    /\ [][(status = "loop" /\ stage' # stage) =>
             (stage' = stage + 1 /\ StageIndex(last'.name) = stage)]_vars
    /\ [](status = "done" => stage = NumStages + 1)

(***************************************************************************)
(* C4.  A completed run has exactly one step record for each of the eleven *)
(* stages, in stage order, and the step of a disabled stage appends a      *)
(* record of zero removed and leaves both masks as they were.              *)
(***************************************************************************)
C4_OneRecordPerStage ==
    /\ [](status = "done" =>
             /\ Len(LociStepList) + Len(SampleStepList) = NumStages
             /\ \A k \in 1..NumStages :
                    \/ \E i \in DOMAIN LociStepList : LociStepList[i] = k
                    \/ \E i \in DOMAIN SampleStepList : SampleStepList[i] = k
             /\ \A i, j \in DOMAIN LociStepList : i < j => LociStepList[i] < LociStepList[j])
    /\ [][(status = "loop" /\ last'.outcome = "disabled") =>
             /\ RetainedLoci' = RetainedLoci
             /\ RetainedSamples' = RetainedSamples
             /\ Len(LociStepList') + Len(SampleStepList') = Len(LociStepList) + Len(SampleStepList) + 1]_vars

C6_StrictAbort ==
    /\ [][(StrictMode /\ status = "loop" /\ (ViewCols = 0 \/ ViewRows = 0)) =>
             stage' = stage]_vars
    /\ [][(StrictMode /\ status = "loop" /\ last'.outcome = "empty") =>
             status' = "error"]_vars
    /\ []((StrictMode /\ status = "done") => (ViewCols > 0 /\ ViewRows > 0))

(***************************************************************************)
(* C7.  The threshold sweep is read-only: the state nremover enters the    *)
(* stage loop with is the same with the sweep as without it.               *)
(***************************************************************************)
C7_SweepReadOnly ==
    [][(impl = "legacy" /\ status = "constructed") =>
          /\ alignment' = popgenio.alignment
          /\ samples' = samples
          /\ loci_indices' = loci_indices
          /\ sample_indices' = sample_indices
          /\ status' = "loop"
          /\ RetainedLoci' = 1..OriginalLoci]_vars

(***************************************************************************)
(* C8.  The per-population missingness stage keeps an active locus if and  *)
(* only if in every population the missing calls among the population's    *)
(* active samples are at most the fraction t of them: a kept locus is      *)
(* within t in every population that has an active sample, and a locus     *)
(* within t in every population, each of two or more active samples, is    *)
(* kept.                                                                   *)
(***************************************************************************)
PopWithin(i, pop, t) ==
    MissingCalls(i, PopRows(pop)) * t.d <= t.n * Cardinality(PopRows(pop))

C8_AllPopulations ==
    [][(StageStep(9) /\ last'.outcome = "committed") =>
          \A i \in RetainedLoci :
              /\ i \in RetainedLoci' =>
                    \A pop \in Populations :
                        PopRows(pop) # {} => PopWithin(i, pop, last'.threshold)
              /\ (\A pop \in Populations :
                     Cardinality(PopRows(pop)) >= 2 /\ PopWithin(i, pop, last'.threshold))
                    => i \in RetainedLoci']_vars

(***************************************************************************)
(* C9.  With a threshold below 1 and a population of fewer than two active *)
(* samples the per-population missingness stage drops every locus.         *)
(***************************************************************************)
C9_SmallPopulation ==
    [][(/\ StageStep(9)
        /\ last'.outcome \in {"committed", "empty"}
        /\ last'.threshold.n < last'.threshold.d
        /\ \E pop \in Populations : Cardinality(PopRows(pop)) < 2) =>
          (last'.outcome = "empty" \/ RetainedLoci' = {})]_vars

(***************************************************************************)
(* C10.  The missing-global stage drops an active locus if and only if the *)
(* active samples whose call there is N, -, . or ? are more than the       *)
(* fraction t of the active samples; a locus at the fraction t is kept.    *)
(* A stage that ended without a commit had every active locus over t.      *)
(***************************************************************************)
C10_MissingGlobal ==
    [][StageStep(8) =>
          /\ last'.outcome = "committed" =>
                \A i \in RetainedLoci :
                    i \notin RetainedLoci' <=>
                        MissingCalls(i, RetainedSamples) * last'.threshold.d
                            > last'.threshold.n * Cardinality(RetainedSamples)
          /\ last'.outcome = "empty" =>
                \A i \in RetainedLoci :
                    MissingCalls(i, RetainedSamples) * last'.threshold.d
                        > last'.threshold.n * Cardinality(RetainedSamples)]_vars

\* The stage at t = 0 kept a locus without a missing call, which is at the
\* fraction t, and dropped the other.
C10_Witness ==
    /\ status = "loop" /\ stage = 9
    /\ last.outcome = "committed"
    /\ last.threshold = Frac(0, Den)
    /\ Cardinality(RetainedLoci) = 1
    /\ StageRemoved(8)
    /\ \A i \in RetainedLoci : MissingCalls(i, RetainedSamples) = 0


(***************************************************************************)
(* C11.  The missing-per-sample stage, run on a view with an active locus, *)
(* drops an active sample if and only if its missing calls among the       *)
(* active loci are more than the fraction t of the active loci, and leaves *)
(* in the sample-id list the ids of the retained samples in their original *)
(* order, the rows of the legacy view with them.  A stage that ended       *)
(* without a commit had every active sample over t and leaves the list.    *)
(***************************************************************************)
MissingInRow(r, cols) ==
    Cardinality({i \in cols : popgenio.alignment[r][i] \in {"N", "-", ".", "?"}})

SamplesWithin(t) ==
    {r \in RetainedSamples :
        MissingInRow(r, RetainedLoci) * t.d <= t.n * Cardinality(RetainedLoci)}

IdsOf(rows) == BoolIndex(popgenio.samples, [r \in 1..OriginalSamples |-> r \in rows])

C11_MissingSample ==
    [][(StageStep(4) /\ RetainedLoci # {}) =>
          /\ last'.outcome = "committed" =>
                /\ RetainedSamples' = SamplesWithin(last'.threshold)
                /\ samples' = IdsOf(SamplesWithin(last'.threshold))
                /\ impl = "legacy" =>
                      alignment' = BoolRows(alignment,
                                            [k \in 1..Len(samples) |-> samples[k] \in Range(samples')])
          /\ last'.outcome = "empty" =>
                /\ SamplesWithin(last'.threshold) = {}
                /\ samples' = samples
                /\ RetainedSamples' = RetainedSamples]_vars

\* The stage ran on one active locus of two and dropped a sample that is
\* within t over both original loci, keeping another.
C11_Witness ==
    /\ status = "loop" /\ stage = 5
    /\ last.outcome = "committed"
    /\ Cardinality(RetainedLoci) = 1
    /\ RetainedSamples # {}
    /\ samples = IdsOf(RetainedSamples)
    /\ \E r \in 1..OriginalSamples :
          /\ r \notin RetainedSamples
          /\ MissingInRow(r, 1..OriginalLoci) * last.threshold.d
                <= last.threshold.n * OriginalLoci


(***************************************************************************)
(* C12.  For every column the minor-allele stages are given, the count of  *)
(* each base A, C, G, T is the number of its exact occurrences plus one    *)
(* half for every two-base ambiguity code that contains it, the missing    *)
(* markers adding nothing; the column A x 7, T, T, W has the minor-allele  *)
(* frequency 1/4.                                                          *)
(***************************************************************************)
TwoBaseCodes == {"M", "R", "W", "S", "Y", "K"}

\* Twice the valid-allele count of base b in the column.
TwiceValidAlleleCount(column, b) ==
    2 * Cardinality({i \in DOMAIN column : column[i] = b})
    + Cardinality({i \in DOMAIN column :
                     column[i] \in TwoBaseCodes /\ b \in AmbiguousDnaValues[column[i]]})

AtAlleleStage == status = "loop" /\ stage \in {10, 11}

C12_ValidAlleleCount ==
    AtAlleleStage =>
        \A j \in 1..ViewCols :
            LET column == Column(ActiveView, j)
                maf == IF impl = "masks" THEN FM_minor_allele_frequency(column)
                       ELSE NR_minor_allele_frequency(column)
            IN  /\ \A b \in Bases :
                      IF impl = "masks"
                      THEN 2 * FM_count_bases(column)[b] = 12 * TwiceValidAlleleCount(column, b)
                      ELSE 2 * NR_count_bases(column)[b] = TwiceValidAlleleCount(column, b)
                /\ column = TwoAlleles(9, 7, "A", "T") \o <<"W">> => 4 * maf.num = maf.den


(***************************************************************************)
(* C13.  The minor-allele-frequency stage of the masks chain keeps an      *)
(* active locus if and only if its minor-allele frequency is at least the  *)
(* minimum: the second largest of the four valid-allele counts over the    *)
(* active samples divided by their sum, 0 for a column without a counted   *)
(* base.  A stage that ended without a commit had every locus below it.    *)
(***************************************************************************)
\* The genotypes of original locus i in the retained samples.
ActiveColumn(i) ==
    BoolIndex(Column(popgenio.alignment, i), [r \in 1..OriginalSamples |-> r \in RetainedSamples])

ValidAlleleCounts(i) == [b \in Bases |-> TwiceValidAlleleCount(ActiveColumn(i), b)]

\* minor-allele frequency of locus i >= t
MafAtLeast(i, t) ==
    LET counts == ValidAlleleCounts(i)
    IN  IF Sum4(counts) = 0 THEN t.n = 0
        ELSE SecondLargest(counts) * t.d >= t.n * Sum4(counts)

C13_MinorAlleleFrequency ==
    [][(impl = "masks" /\ StageStep(10)) =>
          /\ last'.outcome = "committed" =>
                \A i \in RetainedLoci : i \in RetainedLoci' <=> MafAtLeast(i, last'.threshold)
          /\ last'.outcome = "empty" =>
                \A i \in RetainedLoci : ~MafAtLeast(i, last'.threshold)]_vars


(***************************************************************************)
(* C14.  The minor-allele-count stage keeps an active locus if and only if *)
(* its minor-allele count is at least the minimum: the second largest of   *)
(* the four valid-allele counts over the active samples, ambiguity codes   *)
(* split in halves.  A stage that ended without a commit had every locus   *)
(* below the minimum.                                                      *)
(***************************************************************************)
\* minor-allele count of locus i >= the integer m
MacAtLeast(i, m) == SecondLargest(ValidAlleleCounts(i)) >= 2 * m

C14_MinorAlleleCount ==
    [][(impl = "masks" /\ StageStep(11)) =>
          /\ last'.outcome = "committed" =>
                \A i \in RetainedLoci : i \in RetainedLoci' <=> MacAtLeast(i, last'.threshold.v)
          /\ last'.outcome = "empty" =>
                \A i \in RetainedLoci : ~MacAtLeast(i, last'.threshold.v)]_vars


(***************************************************************************)
(* C15.  The biallelic stage keeps an active locus if and only if it has   *)
(* exactly two distinct valid alleles over the active samples: missing     *)
(* markers never count, the heterozygote codes are left out when           *)
(* exclude_heterozygous is set and stand for their two bases otherwise.    *)
(* A stage that ended without a commit had no such locus.                  *)
(***************************************************************************)
UniqueValidAlleles(column, exclude_heterozygous) ==
    LET called == {column[i] : i \in DOMAIN column} \ {"N", "-", ".", "?"}
    IN  IF exclude_heterozygous THEN called \ TwoBaseCodes
        ELSE (called \ TwoBaseCodes)
             \cup UNION {AmbiguousDnaValues[h] : h \in called \cap TwoBaseCodes}

C15_Biallelic ==
    [][(impl = "masks" /\ StageStep(7)) =>
          /\ last'.outcome = "committed" =>
                \A i \in RetainedLoci :
                    i \in RetainedLoci' <=>
                        Cardinality(UniqueValidAlleles(ActiveColumn(i), last'.threshold.v)) = 2
          /\ last'.outcome = "empty" =>
                \A i \in RetainedLoci :
                    Cardinality(UniqueValidAlleles(ActiveColumn(i), last'.threshold.v)) # 2]_vars


(***************************************************************************)
(* C16.  The monomorphic stage drops an active locus if and only if it has *)
(* at most one distinct valid allele over the active samples, however many *)
(* samples carry it.  A stage that ended without a commit had no locus of  *)
(* two or more distinct valid alleles.                                     *)
(***************************************************************************)
DistinctValidAlleles(i, arg) ==
    Cardinality(UniqueValidAlleles(ActiveColumn(i), impl = "masks" /\ arg.v))

C16_Monomorphic ==
    [][StageStep(5) =>
          /\ last'.outcome = "committed" =>
                \A i \in RetainedLoci :
                    i \notin RetainedLoci' <=> DistinctValidAlleles(i, last'.threshold) <= 1
          /\ last'.outcome = "empty" =>
                \A i \in RetainedLoci : DistinctValidAlleles(i, last'.threshold) <= 1]_vars


(***************************************************************************)
(* C17.  The singleton stage removes an active locus if and only if it has *)
(* exactly two distinct valid alleles over the active samples and the less *)
(* frequent of them occurs exactly once; a locus of one, three or more     *)
(* distinct valid alleles is never removed.  A stage that ended without a  *)
(* commit had only such singleton loci.                                    *)
(***************************************************************************)
SingletonLocus(i, arg) ==
    LET column == ActiveColumn(i)
        invalid == IF impl = "masks" /\ arg.v THEN {"N", "-", ".", "?"} \cup TwoBaseCodes
                   ELSE {"N", "-", ".", "?"}
        alleles == {column[r] : r \in DOMAIN column} \ invalid
    IN  /\ Cardinality(alleles) = 2
        /\ \E x \in alleles : Cardinality({r \in DOMAIN column : column[r] = x}) = 1

C17_Singletons ==
    [][StageStep(6) =>
          /\ last'.outcome = "committed" =>
                \A i \in RetainedLoci :
                    i \notin RetainedLoci' <=> SingletonLocus(i, last'.threshold)
          /\ last'.outcome = "empty" =>
                \A i \in RetainedLoci : SingletonLocus(i, last'.threshold)]_vars


(***************************************************************************)
(* C18.  The unlinked-only stage, run on a VCF source, leaves active       *)
(* exactly one locus of every chromosome that had an active locus before   *)
(* it, a locus that was active before, and no other locus: the retained    *)
(* count is the number of distinct chromosomes among the loci active       *)
(* before.                                                                 *)
(***************************************************************************)
ChromsOf(loci) == {popgenio.chrom[i] : i \in loci}

C18_OnePerChromosome ==
    [][(StageStep(1) /\ last'.outcome # "disabled" /\ popgenio.filetype = "vcf") =>
          /\ last'.outcome = "committed"
          /\ RetainedLoci' \subseteq RetainedLoci
          /\ \A c \in ChromsOf(RetainedLoci) :
                Cardinality({i \in RetainedLoci' : popgenio.chrom[i] = c}) = 1
          /\ Cardinality(RetainedLoci') = Cardinality(ChromsOf(RetainedLoci))]_vars


(***************************************************************************)
(* C19.  The thinning stage, run on a VCF source, scans the active loci of *)
(* each chromosome by ascending position, keeps the first, and drops a     *)
(* later locus if and only if it lies within the window of the locus kept  *)
(* last.                                                                   *)
(***************************************************************************)
\* The loci of S, all of one chromosome, the scan keeps; kept is the locus
\* kept last, 0 before the first.
RECURSIVE ThinScan(_, _, _)
ThinScan(S, kept, window) ==
    IF S = {} THEN {}
    ELSE LET m == CHOOSE x \in S : \A y \in S : popgenio.pos[x] <= popgenio.pos[y]
         IN  IF kept # 0 /\ popgenio.pos[m] - popgenio.pos[kept] <= window
             THEN ThinScan(S \ {m}, kept, window)
             ELSE {m} \cup ThinScan(S \ {m}, m, window)

Thinned(loci, window) ==
    UNION {ThinScan({i \in loci : popgenio.chrom[i] = c}, 0, window) : c \in ChromsOf(loci)}

C19_Thinning ==
    [][(StageStep(2) /\ last'.outcome # "disabled" /\ popgenio.filetype = "vcf"
        /\ RetainedLoci # {}) =>
          /\ last'.outcome = "committed"
          /\ RetainedLoci' = Thinned(RetainedLoci, last'.threshold.v)]_vars


(***************************************************************************)
(* C20.  The random-subset stage asked for n loci, an integer or the       *)
(* rounded fraction of the active count, retains loci that were active     *)
(* before it, exactly n distinct ones when n is at most the active count,  *)
(* and does not raise an error when n exceeds the active count.            *)
(***************************************************************************)
RequestedCount(size, active) ==
    IF size.kind = "int" THEN size.v ELSE RoundHalfEven(active * size.v.n, size.v.d)

C20_RandomSubset ==
    [][(StageStep(3) /\ last'.outcome # "disabled" /\ RetainedLoci # {}) =>
          LET n == RequestedCount(last'.threshold, Cardinality(RetainedLoci))
          IN  /\ last'.outcome # "raised"
              /\ RetainedLoci' \subseteq RetainedLoci
              /\ (n <= Cardinality(RetainedLoci) /\ last'.outcome = "committed")
                    => Cardinality(RetainedLoci') = n]_vars


(***************************************************************************)
(* C21.  Unlinked-only selection or thinning enabled on a source that is   *)
(* not a VCF source ends the run in an error and leaves the masks, the     *)
(* view and the sample-id list as they were: it is never a silent no-op.   *)
(***************************************************************************)
CoordinateStageStep == (StageStep(1) \/ StageStep(2)) /\ last'.outcome # "disabled"

FractionStages == {4, 8, 9, 10}

OutOfRange(t) == t.n < 0 \/ t.n > t.d

C22_ThresholdErrors ==
    [][(/\ \E k \in FractionStages : StageStep(k)
        /\ last'.outcome # "disabled"
        /\ OutOfRange(last'.threshold)) =>
          /\ last'.outcome = "raised"
          /\ status' = "error"
          /\ UNCHANGED <<alignment, samples, loci_indices, sample_indices, original_indices,
                         loci_removed_per_step, df_global_list, df_sample_list>>]_vars


(***************************************************************************)
(* C23.  The store a completed run returns agrees with the retained loci:  *)
(* its k-th column is the original column of the k-th retained original    *)
(* locus in ascending order, over the retained samples in original order,  *)
(* and for a VCF source its k-th chromosome and position are those of that *)
(* same original locus.                                                    *)
(***************************************************************************)
RetainedLociAscending == SortedSeq(RetainedLoci)
RetainedSamplesAscending == SortedSeq(RetainedSamples)

C23_OutputAgrees ==
    status = "done" =>
        /\ Len(output.alignment) = Len(RetainedSamplesAscending)
        /\ \A r \in DOMAIN output.alignment :
              output.alignment[r] =
                  Take(popgenio.alignment[RetainedSamplesAscending[r]], RetainedLociAscending)
        /\ impl = "legacy" => loci_indices = PyList(RetainedLociAscending)
        /\ popgenio.filetype = "vcf" =>
              /\ output.chrom = Take(popgenio.chrom, RetainedLociAscending)
              /\ output.pos = Take(popgenio.pos, RetainedLociAscending)


(***************************************************************************)
(* C24.  A chain leaves its source store as it was: no step of a run, the  *)
(* construction of the output store included, changes the source's         *)
(* genotype matrix, sample-id list, population map, inverse map or input   *)
(* settings.                                                               *)
(***************************************************************************)
C24_SourceUnchanged ==
    [][/\ popgenio'.alignment = popgenio.alignment
       /\ popgenio'.samples = popgenio.samples
       /\ popgenio'.popmap = popgenio.popmap
       /\ popgenio'.popmap_inverse = popgenio.popmap_inverse
       /\ popgenio'.inputs = popgenio.inputs]_vars


(***************************************************************************)
(* C25.  A chain that runs while a second chain built from the same source *)
(* runs ends with the output store it returns when it runs alone: the      *)
(* store built from its own view, sample list and retained loci and from   *)
(* the source as it was when the chain was constructed.                    *)
(***************************************************************************)
\* The population of every sample of the source, read from the inverse map.
PopMapAsBuilt ==
    [sid \in Range(popgenio.samples) |->
        CHOOSE p \in DOMAIN popgenio.popmap_inverse : sid \in Range(popgenio.popmap_inverse[p])]

SourceAsBuilt ==
    [popgenio EXCEPT !.popmap = PopMapAsBuilt, !.inputs = SourceInputs(popgenio.filetype)]

OutputAlone ==
    IF impl = "legacy"
    THEN NR_return_filtered_output(SourceAsBuilt, alignment, samples, loci_indices.v)
    ELSE FM_finalize(SourceAsBuilt, alignment, samples, loci_indices, sample_indices)

C25_ChainsIndependent == status = "done" => output = OutputAlone


(***************************************************************************)
(* C26.  Filtering is deterministic: from one state of a run and one       *)
(* configuration the unlinked-only stage and the random-subset stage have  *)
(* a single result, so two runs of one source and configuration end with   *)
(* the same masks, step report and output store.                           *)
(***************************************************************************)
RandomSubsetResults(size) ==
    IF impl = "legacy" THEN NR_random_subset_loci(size, alignment)
    ELSE FM_random_subset_loci(FM_nremover, size)

UnlinkedOnlyResults ==
    IF impl = "legacy" THEN NR_filter_linked(alignment, popgenio)
    ELSE {FM_filter_linked(FM_nremover)}

C26_Deterministic ==
    /\ (status = "loop" /\ stage = 1) => Cardinality(UnlinkedOnlyResults) = 1
    /\ (status = "loop" /\ stage = 3) =>
          \A size \in SubsetSizes \ {None} : Cardinality(RandomSubsetResults(size)) = 1


(***************************************************************************)
(* C27.  The missing-global stage is idempotent: applied again at the same *)
(* threshold to the state it left, with the sample mask as it is, it       *)
(* removes no locus, and after a stage that was not committed it is not    *)
(* committed again.                                                        *)
(***************************************************************************)
AfterMissingGlobal ==
    /\ status = "loop" /\ stage = 9
    /\ StageIndex(last.name) = 8
    /\ last.outcome \in {"committed", "empty"}

C27_Idempotent ==
    AfterMissingGlobal =>
        IF impl = "legacy"
        THEN LET again == NR_filter_missing(last.threshold, alignment)
             IN  again.ok /\ again.alignment = alignment
        ELSE LET again == FM_filter_missing(FM_nremover, last.threshold)
             IN  IF last.outcome = "committed"
                 THEN /\ again.kind = "update"
                      /\ NR2_update_indices(loci_indices, again.mask) = loci_indices
                 ELSE again.kind = "append"

\* The stage dropped a locus at t = 1/2 and kept one that has a missing call.
C27_Witness ==
    /\ AfterMissingGlobal
    /\ last.outcome = "committed"
    /\ last.threshold = Frac(1, Den)
    /\ StageRemoved(8)
    /\ \E i \in RetainedLoci : MissingCalls(i, RetainedSamples) > 0


(***************************************************************************)
(* C28.  Thinning that runs after an earlier stage has removed loci judges *)
(* the loci that are still active, each by the chromosome and position of  *)
(* its own original index: it is committed, keeps only loci that were      *)
(* active before it, decides among the active loci alone, and leaves the   *)
(* loci mask of the masks chain at the original locus count.               *)
(***************************************************************************)
EarlierStageRemovedLoci == RetainedLoci # {} /\ Cardinality(RetainedLoci) < OriginalLoci

C28_OriginalIndexSpace ==
    [][(/\ StageStep(2)
        /\ last'.outcome # "disabled"
        /\ popgenio.filetype = "vcf"
        /\ EarlierStageRemovedLoci) =>
          /\ last'.outcome = "committed"
          /\ RetainedLoci' \subseteq RetainedLoci
          /\ \A i \in RetainedLoci :
                 i \in RetainedLoci' <=> i \in Thinned(RetainedLoci, last'.threshold.v)
          /\ impl = "masks" => Len(loci_indices') = OriginalLoci]_vars


(***************************************************************************)
(* C29.  In the masks chain every loci stage after the per-sample stage    *)
(* decides from the genotypes of the active samples only: whatever called  *)
(* genotypes the removed samples carry, the stage about to run gives the   *)
(* same result for each of its parameter values.  (The view of the legacy  *)
(* chain does not hold the rows of removed samples.)                       *)
(***************************************************************************)
CalledSymbols == {"A", "T", "W"}

\* The alignments that differ from the chain's in called genotypes of
\* removed samples only.
RemovedSampleVariants ==
    LET cells == {c \in (1..Len(alignment)) \X (1..NCols(alignment)) :
                     ~sample_indices[c[1]] /\ alignment[c[1]][c[2]] \notin FM_MissingChars}
    IN  {[r \in 1..Len(alignment) |->
            [j \in 1..NCols(alignment) |->
                IF <<r, j>> \in cells THEN f[<<r, j>>] ELSE alignment[r][j]]] :
         f \in [cells -> CalledSymbols]}

\* What the stage about to run does, for each value of its parameter.
LaterStageResults(self) ==
    CASE stage = 5 -> [e \in BOOLEAN |-> FM_filter_monomorphic(self, e)]
      [] stage = 6 -> [e \in BOOLEAN |-> FM_filter_singletons(self, e)]
      [] stage = 7 -> [e \in BOOLEAN |-> FM_filter_biallelic(self, e)]
      [] stage = 8 -> [t \in {u \in MissingThresholds : IsLess1(u)} |-> FM_filter_missing(self, t)]
      [] stage = 9 -> [t \in {u \in MissingThresholds : IsLess1(u)} |-> FM_filter_missing_pop(self, t)]
      [] stage = 10 -> [t \in {u \in MafThresholds : IsPositive(u)} |-> FM_filter_maf(self, t)]
      [] OTHER -> [m \in {1, 2} |-> FM_filter_mac(self, PyInt(m))]

C29_ActiveSamplesOnly ==
    (impl = "masks" /\ status = "loop" /\ stage \in 5..11) =>
        \A alt \in RemovedSampleVariants :
            LaterStageResults([FM_nremover EXCEPT !.alignment = alt])
                = LaterStageResults(FM_nremover)


(***************************************************************************)
(* C30.  The removed count a loci stage records is the number of active    *)
(* loci before the stage minus the number after it (0 for a disabled stage *)
(* and for a stage that was not committed) whenever the run goes on after  *)
(* the stage, so in a completed run the recorded counts sum to the         *)
(* original locus count minus the retained one.                            *)
(***************************************************************************)
RemovedCounts ==
    IF impl = "masks" THEN [i \in DOMAIN df_global_list |-> df_global_list[i].Removed_Count]
    ELSE [i \in DOMAIN loci_removed_per_step |-> loci_removed_per_step[i].loci_removed]

RECURSIVE SumSeq(_)
SumSeq(s) == IF s = <<>> THEN 0 ELSE Head(s) + SumSeq(Tail(s))

C30_RemovedCounts ==
    /\ [][(/\ status = "loop" /\ status' = "loop"
            /\ Len(RemovedCounts') = Len(RemovedCounts) + 1) =>
             RemovedCounts'[Len(RemovedCounts')]
                 = Cardinality(RetainedLoci) - Cardinality(RetainedLoci')]_vars
    /\ [](status = "done" =>
             SumSeq(RemovedCounts) = OriginalLoci - Cardinality(RetainedLoci))

=============================================================================
